---- MODULE Spec2Model ----
(***************************************************************************)
(* Model of react_agent/tools.py: the search retry loop (search), the SBOM *)
(* parser (parse_sbom), the EOL fetcher (fetch_eol_data) and the EOL       *)
(* reconciliation loop (check_eol_dates).                                  *)
(*                                                                         *)
(* Three specifications share the module: SpecSearch, SpecParse, SpecEol.  *)
(* Each one starts its own function and leaves the other functions' state  *)
(* at its idle value.                                                      *)
(***************************************************************************)
EXTENDS Integers, Sequences, FiniteSets, TLC

VARIABLES
    \* ---- search ----
    s_pc,        \* "idle" | "loop" | "sleep" | "returned" | "raised"
    s_query,     \* the query argument
    s_max,       \* configuration.max_search_results
    s_attempt,   \* the loop variable `attempt`
    s_result,    \* what search returned or raised
    s_trace,     \* upstream attempts and sleeps, in the order performed
    \* ---- parse_sbom ----
    p_pc,        \* "idle" | "start" | "returned" | "raised"
    p_sbom,      \* the sbom argument
    p_result,    \* what parse_sbom returned or raised
    \* ---- check_eol_dates ----
    e_pc,        \* "idle" | "start" | "loop" | "returned" | "raised"
    frameworks,  \* the frameworks argument
    e_i,         \* how many components the for loop has taken
    eol_data,    \* the local eol_data: what the last fetch_eol_data returned
    upgrades,    \* the local upgrades
    e_result,    \* what check_eol_dates returned or raised
    e_log,       \* the last message the loop body logged
    now,         \* datetime.now()
    ref          \* the reference run of the isolation claim (see RefStep)

svars == <<s_pc, s_query, s_max, s_attempt, s_result, s_trace>>
pvars == <<p_pc, p_sbom, p_result>>
evars == <<e_pc, frameworks, e_i, eol_data, upgrades, e_result, e_log, now, ref>>
vars == <<svars, pvars, evars>>

None == [kind |-> "None"]

(***************************************************************************)
(* search                                                                  *)
(***************************************************************************)
max_retries == 5

MaxResults == 2

Queries == {"q1", "q2"}

\* What one upstream call (wrapped.ainvoke) can raise: the exception class and
\* whether str(e) contains 'overloaded_error'.
UpstreamErrors ==
    [cls : {"APIStatusError", "Exception"}, overloaded : BOOLEAN]

\* What one upstream call can return: at most max_results results, in order.
UpstreamResults(q, m) ==
    {[kind |-> "list", items |-> [j \in 1..k |-> <<q, j>>]] : k \in 0..m}

\* except APIStatusError as e: if 'overloaded_error' in str(e)
IsOverloaded(e) == e.cls = "APIStatusError" /\ e.overloaded

\* a linear backoff in place of the exponential one
wait_linear(attempt) == attempt + 1

\* wait_time = 2 ** attempt
wait_time(attempt) == 2 ^ attempt

\* a loop bound off by one
InRangeInclusive(attempt) == attempt <= max_retries

\* for attempt in range(max_retries)
InRange(attempt) == attempt < max_retries

\* The entries of s_trace: an upstream call with its outcome and what it
\* returned or raised, or a sleep with its length.
AttemptEv(out, val) == [ev |-> "attempt", out |-> out, secs |-> 0, val |-> val]

SleepEv(secs) == [ev |-> "sleep", out |-> "none", secs |-> secs, val |-> None]

\* result = await wrapped.ainvoke(...); return cast(..., result)
InvokeOk ==
    /\ s_pc = "loop"
    /\ InRange(s_attempt)
    /\ \E r \in UpstreamResults(s_query, s_max) :
          /\ s_result' = r
          /\ s_trace' = Append(s_trace, AttemptEv("ok", r))
    /\ s_pc' = "returned"
    /\ UNCHANGED <<s_query, s_max, s_attempt, pvars, evars>>

\* the upstream call raises the classified overloaded error: log and go to sleep
InvokeOverloaded ==
    /\ s_pc = "loop"
    /\ InRange(s_attempt)
    /\ \E e \in UpstreamErrors :
          /\ IsOverloaded(e)
          /\ s_trace' = Append(s_trace, AttemptEv("overloaded", [kind |-> "raise", exc |-> e]))
    /\ s_pc' = "sleep"
    /\ UNCHANGED <<s_query, s_max, s_attempt, s_result, pvars, evars>>

\* an error handler that backs off on every error
InvokeErrorRetry ==
    /\ s_pc = "loop"
    /\ s_attempt < max_retries
    /\ \E e \in UpstreamErrors :
          /\ ~(e.cls = "APIStatusError" /\ e.overloaded)
          /\ s_trace' = Append(s_trace, AttemptEv("error", [kind |-> "raise", exc |-> e]))
    /\ s_pc' = "sleep"
    /\ UNCHANGED <<s_query, s_max, s_attempt, s_result, pvars, evars>>

\* the upstream call raises anything else: an APIStatusError that is not
\* overloaded is re-raised by the handler, any other exception is not caught
InvokeError ==
    /\ s_pc = "loop"
    /\ InRange(s_attempt)
    /\ \E e \in UpstreamErrors :
          /\ ~IsOverloaded(e)
          /\ s_result' = [kind |-> "raise", exc |-> e]
          /\ s_trace' = Append(s_trace, AttemptEv("error", [kind |-> "raise", exc |-> e]))
    /\ s_pc' = "raised"
    /\ UNCHANGED <<s_query, s_max, s_attempt, pvars, evars>>

\* await asyncio.sleep(wait_time), then the next iteration of the for loop
Sleep ==
    /\ s_pc = "sleep"
    /\ s_trace' = Append(s_trace, SleepEv(wait_time(s_attempt)))
    /\ s_attempt' = s_attempt + 1
    /\ s_pc' = "loop"
    /\ UNCHANGED <<s_query, s_max, s_result, pvars, evars>>

\* the for loop is exhausted: log and return None
Exhausted ==
    /\ s_pc = "loop"
    /\ ~InRange(s_attempt)
    /\ s_result' = None
    /\ s_pc' = "returned"
    /\ UNCHANGED <<s_query, s_max, s_attempt, s_trace, pvars, evars>>


(***************************************************************************)
(* parse_sbom                                                              *)
(***************************************************************************)
MaxComponents == 2

\* Components: name and version, the version a sequence of characters.
\* "1.0" and "2" have the major versions of the feed's cycles, "10.1" has not.
Components ==
    {[name |-> "a", version |-> <<"1", ".", "0">>],
     [name |-> "b", version |-> <<"2">>],
     [name |-> "c", version |-> <<"1", "0", ".", "1">>]}

\* what else a `components` array can hold: an object with no version
SbomItems == Components \cup {[name |-> "d"]}

ComponentLists == UNION {[1..n -> Components] : n \in 0..MaxComponents}

SbomLists == UNION {[1..n -> SbomItems] : n \in 0..MaxComponents}

\* JSON values a `components` field can hold
ComponentsValues ==
    {[type |-> "list", items |-> l] : l \in SbomLists}
        \cup {[type |-> t, items |-> <<>>] : t \in {"string", "number", "null", "object"}}

\* SBOM texts: text that is not JSON, JSON documents that are not objects, and
\* JSON objects with or without a `components` field and with or without
\* other top-level keys (extra)
NoComponents == [type |-> "null", items |-> <<>>]

SbomTexts ==
    {[json |-> FALSE, top |-> "none", has |-> FALSE, extra |-> FALSE, components |-> NoComponents]}
        \cup {[json |-> TRUE, top |-> t, has |-> FALSE, extra |-> FALSE, components |-> NoComponents] :
                 t \in {"array", "string", "number", "null"}}
        \cup {[json |-> TRUE, top |-> "object", has |-> FALSE, extra |-> x, components |-> NoComponents] :
                 x \in BOOLEAN}
        \cup {[json |-> TRUE, top |-> "object", has |-> TRUE, extra |-> x, components |-> c] :
                 x \in BOOLEAN, c \in ComponentsValues}

\* json.loads(sbom)
json_loads(text) ==
    IF text.json THEN [ok |-> TRUE, doc |-> text] ELSE [ok |-> FALSE, doc |-> text]

\* sbom_data.get("components", [])
get_components(doc) ==
    IF doc.has THEN doc.components ELSE [type |-> "list", items |-> <<>>]

\* the body of parse_sbom
parse_sbom(text) ==
    LET loaded == json_loads(text) IN
    IF ~loaded.ok
    THEN None                                       \* except json.JSONDecodeError
    ELSE IF loaded.doc.top # "object"
    THEN [kind |-> "raise", exc |-> "AttributeError"]   \* .get on a non-dict
    ELSE LET fws == get_components(loaded.doc) IN
         IF fws.type # "list"
         THEN None                                  \* not isinstance(frameworks, list)
         ELSE [kind |-> "list", items |-> fws.items]

ParseSbom ==
    /\ p_pc = "start"
    /\ p_result' = parse_sbom(p_sbom)
    /\ p_pc' = IF p_result'.kind = "raise" THEN "raised" ELSE "returned"
    /\ UNCHANGED <<p_sbom, svars, evars>>

(***************************************************************************)
(* fetch_eol_data and check_eol_dates                                      *)
(***************************************************************************)
MaxTable == 2

\* the `cycle` strings of the feed, as sequences of characters
Cycles == {<<"1">>, <<"2">>}

\* Calendar days are numbered in calendar order: the two EOL dates of the
\* unit test, "2023-12-31" and "2025-12-31". datetime.max is later than all.
Eol2023 == 1

Eol2025 == 2

Dates == {Eol2023, Eol2025}

DatetimeMax == Eol2025 + 1

\* The values an entry's `eol` can take: a "%Y-%m-%d" string of day d, a
\* string that is not a date, the boolean false, or no `eol` key at all.
EolValues ==
    {[t |-> "date", d |-> d] : d \in Dates}
        \cup {[t |-> x, d |-> 0] : x \in {"text", "false", "absent"}}

ReleaseCycles == [cycle : Cycles, eol : EolValues]

Tables == UNION {[1..n -> ReleaseCycles] : n \in 0..MaxTable}

\* What the GET of fetch_eol_data can meet: a 200 with a JSON array, another
\* status, or an aiohttp.ClientError.
Responses ==
    {[status |-> "200", body |-> tb] : tb \in Tables}
        \cup {[status |-> st, body |-> <<>>] : st \in {"404", "ClientError"}}

\* fetch_eol_data: the table on a 200, None otherwise
fetch_eol_data(resp) ==
    IF resp.status = "200" THEN [kind |-> "list", items |-> resp.body] ELSE None

\* `if eol_data:` -- None and the empty list are falsy
Truthy(data) == data.kind = "list" /\ Len(data.items) > 0

\* version.split('.')[0]
RECURSIVE major_version(_)
major_version(version) ==
    IF version = <<>> \/ Head(version) = "."
    THEN <<>>
    ELSE <<Head(version)>> \o major_version(Tail(version))

\* item["cycle"] == major_version
CycleMatches(item, major) == item.cycle = major

\* a scan that falls back to the first entry when no cycle matches
FirstMatchOrFirst(table, major) ==
    LET hits == {k \in 1..Len(table) : table[k].cycle = major} IN
    IF table = <<>> THEN None
    ELSE IF hits = {} THEN [kind |-> "item", item |-> table[1]]
    ELSE [kind |-> "item", item |-> table[CHOOSE k \in hits : \A j \in hits : k <= j]]

\* next((item for item in eol_data if item["cycle"] == major_version), None)
RECURSIVE FirstMatch(_, _)
FirstMatch(table, major) ==
    IF table = <<>> THEN None
    ELSE IF CycleMatches(Head(table), major)
    THEN [kind |-> "item", item |-> Head(table)]
    ELSE FirstMatch(Tail(table), major)

\* isinstance(x, str)
IsStr(eol) == eol.t \in {"date", "text"}

\* datetime.strptime(s, "%Y-%m-%d") raises ValueError on a string that is no date
Parses(eol) == eol.t = "date"

\* the key of max(): v["eol"] raises KeyError when the key is absent, strptime
\* raises ValueError on a string that is no date, a non-string is datetime.max
KeyError(v) ==
    IF v.eol.t = "absent" THEN "KeyError"
    ELSE IF IsStr(v.eol) /\ ~Parses(v.eol) THEN "ValueError"
    ELSE "none"

MaxKey(v) == IF IsStr(v.eol) THEN v.eol.d ELSE DatetimeMax

\* the first exception the key raises over the table, "none" when it raises none
RECURSIVE FirstKeyError(_)
FirstKeyError(table) ==
    IF table = <<>> THEN "none"
    ELSE IF KeyError(Head(table)) # "none" THEN KeyError(Head(table))
    ELSE FirstKeyError(Tail(table))

\* max() keeps its candidate unless the next key is strictly greater
Replaces(candidate, v) == MaxKey(v) > MaxKey(candidate)

RECURSIVE MaxFrom(_, _)
MaxFrom(candidate, rest) ==
    IF rest = <<>> THEN candidate
    ELSE MaxFrom(IF Replaces(candidate, Head(rest)) THEN Head(rest) ELSE candidate,
                 Tail(rest))

\* max(eol_data, key=...) on a non-empty table whose keys raise nothing
latest_version(table) == MaxFrom(Head(table), Tail(table))

\* eol_date < datetime.now()
PastDue(eol, t) == eol.d < t

\* the dict appended to upgrades
Recommendation(comp, vd, latest) ==
    [name |-> comp.name,
     current_version |-> comp.version,
     eol_date |-> vd.eol,
     suggested_version |-> latest.cycle,
     suggested_eol_date |-> latest.eol]

\* an insert at the front in place of the append
PrependUpgrade(ups, rec) == <<rec>> \o ups

\* upgrades.append(...)
AppendUpgrade(ups, rec) == Append(ups, rec)

Skip(msg) == [out |-> "skip", log |-> msg]

\* One iteration of the for loop of check_eol_dates on component comp, with
\* data what fetch_eol_data returned and t what datetime.now() returns.
LoopBody(comp, data, t) ==
    LET major == major_version(comp.version) IN
    IF ~Truthy(data) THEN Skip("fetch_failed")
    ELSE LET version_data == FirstMatch(data.items, major) IN
         IF version_data = None THEN Skip("no_data")
         ELSE LET vd == version_data.item IN
              IF ~IsStr(vd.eol) THEN Skip("no_valid_eol")
              ELSE IF ~Parses(vd.eol)
              THEN [out |-> "raise", log |-> "ValueError"]
              ELSE IF ~PastDue(vd.eol, t) THEN Skip("within_eol")
              ELSE IF FirstKeyError(data.items) # "none"
              THEN [out |-> "raise", log |-> FirstKeyError(data.items)]
              ELSE [out |-> "append", log |-> "past_eol",
                    rec |-> Recommendation(comp, vd, latest_version(data.items))]

\* The reference run of the isolation claim: check_eol_dates on the same list
\* with the components whose fetch failed or whose major version matched no
\* cycle taken out, every other component meeting the same response.
Isolated(comp, data) ==
    \/ data = None
    \/ \A k \in 1..Len(data.items) : data.items[k].cycle # major_version(comp.version)

RefStep(r, comp, data, t) ==
    IF Isolated(comp, data) \/ r.raised THEN r
    ELSE LET b == LoopBody(comp, data, t) IN
         [ups |-> IF b.out = "append" THEN AppendUpgrade(r.ups, b.rec) ELSE r.ups,
          raised |-> b.out = "raise"]

\* if not frameworks: return None
EmptyInput ==
    /\ e_pc = "start"
    /\ frameworks = <<>>
    /\ e_result' = None
    /\ e_pc' = "returned"
    /\ UNCHANGED <<frameworks, e_i, eol_data, upgrades, e_log, now, ref, svars, pvars>>

\* upgrades = []
Begin ==
    /\ e_pc = "start"
    /\ frameworks # <<>>
    /\ e_pc' = "loop"
    /\ UNCHANGED <<frameworks, e_i, eol_data, upgrades, e_result, e_log, now, ref, svars, pvars>>

\* eol_data = await fetch_eol_data(name), for the next component of the loop
Fetch ==
    /\ e_pc = "loop"
    /\ e_i < Len(frameworks)
    /\ \E resp \in Responses : eol_data' = fetch_eol_data(resp)
    /\ e_pc' = "fetched"
    /\ UNCHANGED <<frameworks, e_i, upgrades, e_result, e_log, now, ref, svars, pvars>>

\* The rest of the iteration: match, compare, append. eol_data is rebound by
\* the next fetch before it is read again; the model holds it only while the
\* iteration runs.
Match ==
    /\ e_pc = "fetched"
    /\ LET comp == frameworks[e_i + 1]
           b == LoopBody(comp, eol_data, now)
       IN  /\ e_log' = b.log
           /\ upgrades' = IF b.out = "append" THEN AppendUpgrade(upgrades, b.rec) ELSE upgrades
           /\ e_pc' = IF b.out = "raise" THEN "raised" ELSE "loop"
           /\ e_result' = IF b.out = "raise" THEN [kind |-> "raise", exc |-> b.log] ELSE e_result
           /\ ref' = RefStep(ref, comp, eol_data, now)
    /\ e_i' = e_i + 1
    /\ eol_data' = None
    /\ UNCHANGED <<frameworks, now, svars, pvars>>

\* the loop is over: return upgrades
Return ==
    /\ e_pc = "loop"
    /\ e_i = Len(frameworks)
    /\ e_result' = [kind |-> "list", items |-> upgrades]
    /\ e_pc' = "returned"
    /\ UNCHANGED <<frameworks, e_i, eol_data, upgrades, e_log, now, ref, svars, pvars>>

(***************************************************************************)
(* Specifications                                                          *)
(***************************************************************************)
NoText == [json |-> FALSE, top |-> "none", has |-> FALSE, extra |-> FALSE, components |-> NoComponents]

InitSearch ==
    /\ s_pc = "loop" /\ s_query \in Queries /\ s_max \in 1..MaxResults
    /\ s_attempt = 0 /\ s_result = None /\ s_trace = <<>>
    /\ p_pc = "idle" /\ p_sbom = NoText /\ p_result = None
    /\ e_pc = "idle" /\ frameworks = <<>> /\ e_i = 0 /\ eol_data = None
    /\ upgrades = <<>> /\ e_result = None /\ e_log = "none" /\ now = 0
    /\ ref = [ups |-> <<>>, raised |-> FALSE]

InitParse ==
    /\ s_pc = "idle" /\ s_query = "q1" /\ s_max = 1
    /\ s_attempt = 0 /\ s_result = None /\ s_trace = <<>>
    /\ p_pc = "start" /\ p_sbom \in SbomTexts /\ p_result = None
    /\ e_pc = "idle" /\ frameworks = <<>> /\ e_i = 0 /\ eol_data = None
    /\ upgrades = <<>> /\ e_result = None /\ e_log = "none" /\ now = 0
    /\ ref = [ups |-> <<>>, raised |-> FALSE]

\* check_eol_dates is called on a list of components; datetime.now() falls on
\* the first EOL day (no date is before it) or on the second (the first is).
InitEol ==
    /\ s_pc = "idle" /\ s_query = "q1" /\ s_max = 1
    /\ s_attempt = 0 /\ s_result = None /\ s_trace = <<>>
    /\ p_pc = "idle" /\ p_sbom = NoText /\ p_result = None
    /\ e_pc = "start" /\ frameworks \in ComponentLists /\ e_i = 0 /\ eol_data = None
    /\ upgrades = <<>> /\ e_result = None /\ e_log = "none" /\ now \in Dates
    /\ ref = [ups |-> <<>>, raised |-> FALSE]

NextSearch == InvokeOk \/ InvokeOverloaded \/ InvokeError \/ Sleep \/ Exhausted

NextParse == ParseSbom

NextEol == EmptyInput \/ Begin \/ Fetch \/ Match \/ Return

SpecSearch == InitSearch /\ [][NextSearch]_vars

SpecParse == InitParse /\ [][NextParse]_vars

SpecEol == InitEol /\ [][NextEol]_vars

(***************************************************************************)
(* Properties of search                                                    *)
(***************************************************************************)
AttemptsOf(trace) == SelectSeq(trace, LAMBDA e : e.ev = "attempt")

SleepsOf(trace) == SelectSeq(trace, LAMBDA e : e.ev = "sleep")

Outcomes(trace) == [k \in 1..Len(AttemptsOf(trace)) |-> AttemptsOf(trace)[k].out]

SleepSecs(trace) == [k \in 1..Len(SleepsOf(trace)) |-> SleepsOf(trace)[k].secs]

SearchOver == s_pc \in {"returned", "raised"}

FourOverloadsThenSuccess ==
    Outcomes(s_trace) = <<"overloaded", "overloaded", "overloaded", "overloaded", "ok">>

\* C5: when the upstream raises the overloaded error on attempts 1-4 and
\* succeeds on attempt 5, search returns the result of that fifth attempt, the
\* sleeps performed are exactly 1, 2, 4, 8, and attempts and sleeps alternate
\* (each sleep lies between two consecutive attempts).
C5_RetryThenSuccess ==
    FourOverloadsThenSuccess =>
        /\ s_pc = "returned"
        /\ s_result = s_trace[Len(s_trace)].val
        /\ s_result.kind = "list"
        /\ SleepSecs(s_trace) = <<1, 2, 4, 8>>
        /\ Len(s_trace) = 9
        /\ \A k \in 1..Len(s_trace) :
              s_trace[k].ev = IF k % 2 = 1 THEN "attempt" ELSE "sleep"

C5_Witness ==
    /\ FourOverloadsThenSuccess
    /\ s_pc = "returned"
    /\ Len(s_result.items) = 2

\* C6: an upstream error that is not the classified overloaded error is the
\* last thing search does: at every moment such an attempt is the last entry
\* of the trace (no sleep and no attempt follows it), search has raised, and
\* what it raised is that error.
C6_FatalErrorRaisedAtOnce ==
    \A k \in 1..Len(s_trace) :
        (s_trace[k].ev = "attempt" /\ s_trace[k].out = "error") =>
            /\ k = Len(s_trace)
            /\ s_pc = "raised"
            /\ s_result = s_trace[k].val

C6_Witness ==
    /\ s_pc = "raised"
    /\ Outcomes(s_trace) = <<"overloaded", "overloaded", "error">>
    /\ SleepSecs(s_trace) = <<1, 2>>

\* C7: search never makes more than 5 upstream attempts, and once all 5 have
\* raised the overloaded error it does not raise: it can still take a step
\* until it has returned, and what it returns is None.
C7_AtMostFiveThenNone ==
    /\ Len(AttemptsOf(s_trace)) <= 5
    /\ (Outcomes(s_trace) = [k \in 1..5 |-> "overloaded"]) =>
          /\ s_pc # "raised"
          /\ s_pc = "returned" => s_result = None
          /\ s_pc # "returned" => ENABLED (Sleep \/ Exhausted)

C7_Witness ==
    /\ s_pc = "returned"
    /\ s_result = None
    /\ Len(AttemptsOf(s_trace)) = 5

\* C10: every backoff sleep is 2^attempt long and is followed by a further
\* upstream attempt: when search is over, the last thing it did was not a
\* sleep.
C10_NoSleepAfterFinalAttempt ==
    /\ \A k \in 1..Len(SleepSecs(s_trace)) : SleepSecs(s_trace)[k] = 2 ^ (k - 1)
    /\ (SearchOver /\ s_trace # <<>>) => s_trace[Len(s_trace)].ev = "attempt"

(***************************************************************************)
(* Properties of parse_sbom                                                *)
(***************************************************************************)
\* how parse_sbom reports text that is not JSON
MalformedInput == None

EmptyResult == [kind |-> "list", items |-> <<>>]

\* C9: text that is not JSON is reported as the failure; a JSON object whose
\* `components` is absent or is not a list gives the empty result, which is
\* not the failure outcome; a list is returned as it is, in length and order.
C9_ParseOutcomes ==
    p_pc \in {"returned", "raised"} =>
        /\ ~p_sbom.json => p_result = MalformedInput
        /\ (p_sbom.json /\ p_sbom.top = "object" /\ ~p_sbom.has) =>
              (p_result = EmptyResult /\ p_result # MalformedInput)
        /\ (p_sbom.json /\ p_sbom.top = "object" /\ p_sbom.has
              /\ p_sbom.components.type # "list") =>
              (p_result = EmptyResult /\ p_result # MalformedInput)
        /\ (p_sbom.json /\ p_sbom.top = "object" /\ p_sbom.has
              /\ p_sbom.components.type = "list") =>
              p_result = [kind |-> "list", items |-> p_sbom.components.items]

(***************************************************************************)
(* Properties of check_eol_dates                                           *)
(***************************************************************************)
\* the component the running iteration is about (e_pc = "fetched")
Current == frameworks[e_i + 1]

\* the first entry of the table whose cycle is the component's major-version
\* token, 0 when the table was not fetched or has none
MatchedIndex(comp, data) ==
    LET hits == IF data = None THEN {}
                ELSE {k \in 1..Len(data.items) :
                         data.items[k].cycle = major_version(comp.version)}
    IN  IF hits = {} THEN 0 ELSE CHOOSE k \in hits : \A j \in hits : k <= j

\* past due: the table was fetched, a cycle equal to the major-version token
\* exists, and the first such cycle's eol is a date strictly before now
IsPastDue(comp, data, t) ==
    LET m == MatchedIndex(comp, data) IN
    /\ m # 0
    /\ data.items[m].eol.t = "date"
    /\ data.items[m].eol.d < t

Appended == Len(upgrades') = Len(upgrades) + 1

\* C1: the iteration on a component emits a recommendation if and only if the
\* component is past due.
C1_FlaggedIffPastDue ==
    [][e_pc = "fetched" => (Appended <=> IsPastDue(Current, eol_data, now))]_vars

\* the EOL date of an entry as the claim orders it: an eol that is no date
\* (a string that is no date, false, no eol at all) is later than any date
ClaimedKey(v) == IF v.eol.t = "date" THEN v.eol.d ELSE DatetimeMax

\* the first entry of the table with the maximum claimed key
ClaimedLatest(table) ==
    LET best == CHOOSE k \in 1..Len(table) :
                    /\ \A j \in 1..Len(table) : ClaimedKey(table[j]) <= ClaimedKey(table[k])
                    /\ \A j \in 1..(k - 1) : ClaimedKey(table[j]) < ClaimedKey(table[k])
    IN  table[best]

\* C2: the iteration on a past-due component emits a recommendation whose
\* suggested_version and suggested_eol_date are those of the first entry with
\* the maximum EOL date over the whole table, an entry whose eol is no date
\* counting as later than any date.
C2_SuggestsLatest ==
    [][(e_pc = "fetched" /\ IsPastDue(Current, eol_data, now)) =>
          /\ Appended
          /\ LET rec == upgrades'[Len(upgrades')]
                 latest == ClaimedLatest(eol_data.items)
             IN  /\ rec.suggested_version = latest.cycle
                 /\ rec.suggested_eol_date = latest.eol]_vars

\* the matched cycle's eol cannot be parsed as a date
MatchedEolUnparseable(comp, data) ==
    LET m == MatchedIndex(comp, data) IN
    m # 0 /\ data.items[m].eol.t # "date"

\* C3: the iteration on a component whose matched eol cannot be parsed as a
\* date adds no recommendation and raises nothing: the loop goes on.
C3_UnparseableSkipped ==
    [][(e_pc = "fetched" /\ MatchedEolUnparseable(Current, eol_data)) =>
          (upgrades' = upgrades /\ e_pc' = "loop")]_vars

\* C4: a component whose fetch failed or whose major version matches no cycle
\* adds no recommendation and raises nothing, and the recommendations of the
\* other components are those of the run without it: at every moment the
\* recommendations and the raised/not-raised outcome are those of the
\* reference run (RefStep), which leaves such components out.
C4_PerItemIsolation ==
    /\ upgrades = ref.ups
    /\ (e_pc = "raised") = ref.raised

C4_Witness ==
    /\ e_pc = "returned"
    /\ e_i = 2
    /\ e_log \in {"fetch_failed", "no_data"}
    /\ Len(upgrades) = 1

\* the (name, version) pairs of a list of components or of recommendations
ComponentsOf(fws) == [k \in 1..Len(fws) |-> <<fws[k].name, fws[k].version>>]

RecommendedOf(ups) == [k \in 1..Len(ups) |-> <<ups[k].name, ups[k].current_version>>]

\* u is an order-preserving subsequence of f
RECURSIVE IsSubsequence(_, _)
IsSubsequence(u, f) ==
    IF u = <<>> THEN TRUE
    ELSE IF f = <<>> THEN FALSE
    ELSE IF Head(u) = Head(f) THEN IsSubsequence(Tail(u), Tail(f))
    ELSE IsSubsequence(u, Tail(f))

\* C8: at every moment the recommendations are, in order, recommendations for
\* an order-preserving subsequence of the components processed so far, the
\* newest one for the component processed last when that one was flagged;
\* the list returned is that list.
C8_OrderPreserved ==
    /\ IsSubsequence(RecommendedOf(upgrades), ComponentsOf(SubSeq(frameworks, 1, e_i)))
    /\ (e_log = "past_eol") =>
          /\ upgrades # <<>>
          /\ RecommendedOf(upgrades)[Len(upgrades)] = ComponentsOf(frameworks)[e_i]
          /\ IsSubsequence(RecommendedOf(SubSeq(upgrades, 1, Len(upgrades) - 1)),
                           ComponentsOf(SubSeq(frameworks, 1, e_i - 1)))
    /\ (e_pc = "returned" /\ frameworks # <<>>) =>
          e_result = [kind |-> "list", items |-> upgrades]

C8_Witness ==
    /\ e_pc = "returned"
    /\ Len(upgrades) = 2
    /\ upgrades[1].name # upgrades[2].name
    /\ e_result.items = upgrades

====
